---- MODULE Spec2Model ----
\* A model of the index handle registry, the lock coordinator, the lock-stall
\* notification callback and the mailbox session lifecycle of
\* src/lib-storage/index/index-storage.c, and of the FETCH engine of
\* src/imap/imap-fetch.c.
\*
\* An index handle (a struct mail_index pointer) is named by the directory it
\* was allocated for (index->dir); NULL is the null pointer.
EXTENDS Integers, Sequences, FiniteSets, TLC

\* ---------------------------------------------------------------- constants

INDEX_CACHE_TIMEOUT == 10

INDEX_CACHE_MAX == 3

LOCK_NOTIFY_INTERVAL == 30

\* ------------------------------------------------------------------- bounds

\* ioloop_time never advances past MaxTime.
MaxTime == 10

\* The callers hold at most MaxHeld references at once.
MaxHeld == 1

\* At most MaxStorages mail storages are initialised at once.
MaxStorages == 1

\* --------------------------------------------------------------- filesystem

NULL == "NULL"

\* The index directories a caller may name.  "a_link" is a symlink to "a",
\* "gone" does not exist.
Paths == {"a", "a_link", "b", "c", "d", "e", "gone"}

\* The directories whose index the storage's open code allocates and adds
\* after a lookup found none; opening "e" never gets as far as that.
Mailboxes == {"a", "a_link", "b", "c", "d"}

\* stat(2): ok is FALSE when the call fails.  "a" and "b" live on device 1,
\* "c" and "d" on device 2, with the same inode numbers.
stat(path) ==
    CASE path = "a"      -> [ok |-> TRUE,  st_dev |-> 1, st_ino |-> 1]
      [] path = "a_link" -> [ok |-> TRUE,  st_dev |-> 1, st_ino |-> 1]
      [] path = "b"      -> [ok |-> TRUE,  st_dev |-> 1, st_ino |-> 2]
      [] path = "c"      -> [ok |-> TRUE,  st_dev |-> 2, st_ino |-> 1]
      [] path = "d"      -> [ok |-> TRUE,  st_dev |-> 2, st_ino |-> 2]
      [] path = "e"      -> [ok |-> TRUE,  st_dev |-> 2, st_ino |-> 3]
      [] OTHER           -> [ok |-> FALSE, st_dev |-> 0, st_ino |-> 0]

\* The handles that can exist: one per directory an index is allocated for.
Handles == Mailboxes

\* One turn of the event loop advances ioloop_time by half the cache timeout,
\* so that a sweep can fall inside an entry's window and at its end.
TickStep == INDEX_CACHE_TIMEOUT \div 2

VARIABLES
    indexes,                \* the registry list, head first
    to_index,               \* TRUE iff the sweep timer exists
    index_storage_refcount, \* number of initialised storages
    ioloop_time,            \* the event loop's clock
    held,                   \* references the callers hold, per handle
    last                    \* the last registry call: operation, argument,
                            \* return value and the handles it freed

regVars == <<indexes, to_index, index_storage_refcount, ioloop_time, held, last>>

VARIABLES
    ibox,           \* the mailbox sessions (struct index_mailbox), by name
    mail_index,     \* the index handle the sessions share (struct mail_index)
    clock,          \* time(NULL)
    lcall           \* the last session call: operation, arguments, return
                    \* value and the calls it made on its collaborators

lockVars == <<ibox, mail_index, clock, lcall>>

VARIABLES
    pc,             \* where imap_fetch() is: "idle", "loop" or "done"
    ctx,            \* struct imap_fetch_context and the arguments of the call
    mails,          \* the messages the iterator yields, in its order
    nxt,            \* the position of the message fetch_next() yields next
    io,             \* the calls imap_fetch() has made, in order
    fret            \* the value imap_fetch() returned

fetchVars == <<pc, ctx, mails, nxt, io, fret>>

vars == <<regVars, lockVars, fetchVars>>

\* struct imap_fetch_context before imap_fetch() fills it.
NoContext ==
    [readonly |-> FALSE, fetch_data |-> {}, imap_data |-> {},
     bodies |-> <<>>, update_seen |-> FALSE,
     body_fetch_from_cache |-> TRUE, failed |-> FALSE]

\* No FETCH is running.
FetchInit ==
    /\ pc = "idle"
    /\ ctx = NoContext
    /\ mails = <<>>
    /\ nxt = 1
    /\ io = <<>>
    /\ fret = 0

\* ------------------------------------------------------------------ helpers

RECURSIVE SumOver(_, _)
SumOver(f, S) ==
    IF S = {} THEN 0
    ELSE LET x == CHOOSE y \in S : TRUE IN f[x] + SumOver(f, S \ {x})

HeldTotal == SumOver(held, Handles)

Entries == {indexes[i] : i \in 1..Len(indexes)}

InRegistry(h) == \E i \in 1..Len(indexes) : indexes[i].index = h

Unreferenced(list) == {i \in 1..Len(list) : list[i].refcount = 0}

Call(op, arg, ret, freed) == [op |-> op, arg |-> arg, ret |-> ret, freed |-> freed]

\* ----------------------------------------------------------------- registry

NewEntryUnreferenced(index) ==
    [index |-> index, refcount |-> 0, destroy_time |-> 0, released |-> -1]

\* struct index_list, as i_new() and index_storage_add() fill it.  released is
\* a history field: the ioloop_time of the entry's last index_storage_unref(),
\* -1 before the first.
NewEntry(index) ==
    [index |-> index, refcount |-> 1, destroy_time |-> 0, released |-> -1]

SameFileDevTypo(st1, st2) ==
    st2.ok /\ st1.st_ino = st2.st_ino /\ st1.st_dev = st2.st_ino

\* The inode comparison of index_storage_lookup_ref().
SameFile(st1, st2) ==
    st2.ok /\ st1.st_ino = st2.st_ino /\ st1.st_dev = st2.st_dev

ScanDestroysOffByOne(rec, destroy_count) ==
    rec.destroy_time <= ioloop_time \/ destroy_count > INDEX_CACHE_MAX

ScanDestroysNoCap(rec, destroy_count) ==
    rec.destroy_time <= ioloop_time

\* The reaping test of the scan in index_storage_lookup_ref(), for an entry
\* whose refcount is 0.
ScanDestroys(rec, destroy_count) ==
    rec.destroy_time <= ioloop_time \/ destroy_count >= INDEX_CACHE_MAX

\* The loop of index_storage_lookup_ref() over the rest of the list: kept is
\* the list rebuilt so far.
RECURSIVE Scan(_, _, _, _, _, _)
Scan(rest, st1, destroy_count, kept, match, freed) ==
    IF rest = <<>>
    THEN [list |-> kept, match |-> match, freed |-> freed]
    ELSE LET rec   == Head(rest)
             hit   == SameFile(st1, stat(rec.index))
             rec1  == IF hit THEN [rec EXCEPT !.refcount = @ + 1] ELSE rec
             match1 == IF hit THEN rec.index ELSE match
         IN IF rec1.refcount = 0
            THEN IF ScanDestroys(rec1, destroy_count)
                 THEN Scan(Tail(rest), st1, destroy_count, kept, match1,
                           freed \cup {rec1.index})
                 ELSE Scan(Tail(rest), st1, destroy_count + 1,
                           Append(kept, rec1), match1, freed)
            ELSE Scan(Tail(rest), st1, destroy_count, Append(kept, rec1),
                      match1, freed)

\* index_storage_lookup_ref(path), by the open code of an initialised storage.
\* The caller takes the reference returned.
index_storage_lookup_ref(path) ==
    /\ last.op # "panic"
    /\ index_storage_refcount > 0
    /\ HeldTotal < MaxHeld
    /\ IF ~stat(path).ok
       THEN /\ last' = Call("lookup_ref", path, NULL, {})
            /\ UNCHANGED <<indexes, held>>
       ELSE LET r == Scan(indexes, stat(path), 0, <<>>, NULL, {})
            IN /\ indexes' = r.list
               /\ held' = IF r.match = NULL THEN held
                          ELSE [held EXCEPT ![r.match] = @ + 1]
               /\ last' = Call("lookup_ref", path, r.match, r.freed)
    /\ UNCHANGED <<to_index, index_storage_refcount, ioloop_time>>
    /\ UNCHANGED <<lockVars, fetchVars>>

\* index_storage_add(index), called by the storage's open code for the index
\* it allocates for path right after index_storage_lookup_ref(path) found no
\* match.
index_storage_add(path) ==
    /\ last.op = "lookup_ref" /\ last.arg = path /\ last.ret = NULL
    /\ stat(path).ok
    /\ path \in Mailboxes
    /\ indexes' = <<NewEntry(path)>> \o indexes
    /\ held' = [held EXCEPT ![path] = @ + 1]
    /\ last' = Call("add", path, NULL, {})
    /\ UNCHANGED <<to_index, index_storage_refcount, ioloop_time>>
    /\ UNCHANGED <<lockVars, fetchVars>>

DestroyTimeNoGrace == ioloop_time

\* The destroy timestamp index_storage_unref() stamps.
DestroyTime == ioloop_time + INDEX_CACHE_TIMEOUT

\* The first entry of the list for index, 0 when there is none.
FindEntry(index) ==
    IF \E i \in 1..Len(indexes) : indexes[i].index = index
    THEN CHOOSE i \in 1..Len(indexes) :
            /\ indexes[i].index = index
            /\ \A j \in 1..(i - 1) : indexes[j].index # index
    ELSE 0

TimerAfterUnrefNotAdded(timer) == timer

\* The timer index_storage_unref() leaves: it adds one when there is none.
TimerAfterUnref(timer) == IF ~timer THEN TRUE ELSE timer

\* The body of index_storage_unref(index).  A failed i_assert() aborts the
\* process.
Unref(index) ==
    LET i == FindEntry(index)
    IN IF i = 0 \/ indexes[i].refcount <= 0
       THEN /\ last' = Call("panic", index, NULL, {})
            /\ UNCHANGED <<indexes, to_index>>
       ELSE /\ indexes' = [indexes EXCEPT ![i] =
                              [@ EXCEPT !.refcount = @ - 1,
                                        !.destroy_time = DestroyTime,
                                        !.released = ioloop_time]]
            /\ to_index' = TimerAfterUnref(to_index)
            /\ last' = Call("unref", index, NULL, {})

\* index_storage_unref(index), called by a caller that holds a reference of
\* its own.
index_storage_unref(index) ==
    /\ last.op # "panic"
    /\ index_storage_refcount > 0
    /\ held[index] > 0
    /\ held' = [held EXCEPT ![index] = @ - 1]
    /\ Unref(index)
    /\ UNCHANGED <<index_storage_refcount, ioloop_time>>
    /\ UNCHANGED <<lockVars, fetchVars>>

SweepDestroysReferenced(rec, all) ==
    all \/ rec.destroy_time <= ioloop_time

\* The test of destroy_unrefed(all) for one entry.
SweepDestroys(rec, all) ==
    rec.refcount = 0 /\ (all \/ rec.destroy_time <= ioloop_time)

\* The list destroy_unrefed(all) leaves.
SweepKeep(list, all) == SelectSeq(list, LAMBDA rec : ~SweepDestroys(rec, all))

TimerAfterSweepAlwaysRemoved(list) == FALSE

\* Whether destroy_unrefed() keeps the timer, given the list it leaves.
TimerAfterSweep(list) == IF list = <<>> /\ to_index THEN FALSE ELSE to_index

\* destroy_unrefed(all).
destroy_unrefed(all, op) ==
    LET list == SweepKeep(indexes, all)
    IN /\ indexes' = list
       /\ to_index' = TimerAfterSweep(list)
       /\ last' = Call(op, NULL, NULL,
                       {indexes[i].index : i \in
                           {j \in 1..Len(indexes) : SweepDestroys(indexes[j], all)}})

\* index_removal_timeout(): the sweep timer fires.
index_removal_timeout ==
    /\ last.op # "panic"
    /\ to_index
    /\ destroy_unrefed(FALSE, "timeout")
    /\ UNCHANGED <<index_storage_refcount, ioloop_time, held>>
    /\ UNCHANGED <<lockVars, fetchVars>>

\* index_storage_init().
index_storage_init ==
    /\ last.op # "panic"
    /\ index_storage_refcount < MaxStorages
    /\ index_storage_refcount' = index_storage_refcount + 1
    /\ last' = Call("init", NULL, NULL, {})
    /\ UNCHANGED <<indexes, to_index, ioloop_time, held>>
    /\ UNCHANGED <<lockVars, fetchVars>>

\* index_storage_deinit(), for a storage that was initialised.
index_storage_deinit ==
    /\ last.op # "panic"
    /\ index_storage_refcount > 0
    /\ index_storage_refcount' = index_storage_refcount - 1
    /\ IF index_storage_refcount - 1 > 0
       THEN /\ last' = Call("deinit", NULL, NULL, {})
            /\ UNCHANGED <<indexes, to_index>>
       ELSE destroy_unrefed(TRUE, "deinit")
    /\ UNCHANGED <<ioloop_time, held>>
    /\ UNCHANGED <<lockVars, fetchVars>>

\* The event loop updates ioloop_time.
Tick ==
    /\ last.op # "panic"
    /\ ioloop_time + TickStep <= MaxTime
    /\ ioloop_time' = ioloop_time + TickStep
    /\ last' = Call("tick", NULL, NULL, {})
    /\ UNCHANGED <<indexes, to_index, index_storage_refcount, held>>
    /\ UNCHANGED <<lockVars, fetchVars>>

RegInit ==
    /\ indexes = <<>>
    /\ to_index = FALSE
    /\ index_storage_refcount = 0
    /\ ioloop_time = 0
    /\ held = [h \in Handles |-> 0]
    /\ last = Call("start", NULL, NULL, {})

\* --------------------------------------------------------- lock coordinator

\* The mailbox sessions opened on the shared index handle.
Sessions == {"s1", "s2"}

\* The lock states: MAILBOX_LOCK_UNLOCK / MAIL_LOCK_UNLOCK, MAIL_LOCK_SHARED,
\* MAIL_LOCK_EXCLUSIVE.
LockTypes == {"UNLOCK", "SHARED", "EXCLUSIVE"}

\* enum mail_index_error, as mail_storage_set_index_error() switches on it.
ErrorKinds ==
    {"NONE", "INTERNAL", "INCONSISTENT", "DISKSPACE", "INDEX_LOCK_TIMEOUT",
     "MAILBOX_LOCK_TIMEOUT"}

\* enum mail_lock_notify_type, as lock_notify() switches on it.
NotifyTypes == {"MAILBOX_ABORT", "MAILBOX_OVERRIDE", "INDEX_ABORT"}

\* (enum mail_lock_notify_type)-1
NotifyNone == "NONE"

\* One call made on a collaborator: the function, its argument, its result.
Ext(fn, arg, ok) == [fn |-> fn, arg |-> arg, ok |-> ok]

\* The record of a session call.  lock_type and trans_ctx are the session's as
\* the call found them.
SessionCall(op, s, req, ret, calls, pre) ==
    [op |-> op, sess |-> s, req |-> req, ret |-> ret, calls |-> calls,
     lock_type |-> pre.lock_type, trans_ctx |-> pre.trans_ctx]

UnlockTransactionShortCircuit(trans_ctx, commit_ok, end_ok) ==
    IF trans_ctx
    THEN [calls |-> IF commit_ok
                    THEN <<Ext("mail_cache_transaction_commit", NULL, commit_ok),
                           Ext("mail_cache_transaction_end", NULL, end_ok)>>
                    ELSE <<Ext("mail_cache_transaction_commit", NULL, commit_ok)>>,
          ret |-> commit_ok /\ end_ok]
    ELSE [calls |-> <<>>, ret |-> TRUE]

\* The transaction block of index_storage_lock(ibox, MAIL_LOCK_UNLOCK): the
\* calls it makes and the ret it leaves.
UnlockTransaction(trans_ctx, commit_ok, end_ok) ==
    IF trans_ctx
    THEN [calls |-> <<Ext("mail_cache_transaction_commit", NULL, commit_ok),
                      Ext("mail_cache_transaction_end", NULL, end_ok)>>,
          ret |-> commit_ok /\ end_ok]
    ELSE [calls |-> <<>>, ret |-> TRUE]

EarlyReturnWhenUnlocked(box, lock_type) ==
    IF lock_type = "UNLOCK"
    THEN box.lock_type = "UNLOCK"
    ELSE box.lock_type = "EXCLUSIVE"

\* The tests of index_storage_lock() that return TRUE before the index handle
\* is touched.
EarlyReturn(box, lock_type) ==
    IF lock_type = "UNLOCK"
    THEN box.lock_type # "UNLOCK"
    ELSE box.lock_type = "EXCLUSIVE"

\* index_storage_init_lock_notify(ibox), less the callback it installs.
InitLockNotify(box) ==
    [box EXCEPT !.readonly = IF mail_index.mailbox_readonly THEN TRUE ELSE @,
                !.next_lock_notify = clock + LOCK_NOTIFY_INTERVAL,
                !.last_notify_type = NotifyNone]

\* index->set_lock(index, lock_type): the handle's own locking primitive.  On
\* failure it leaves its lock as it was and records an error.
IndexSetLock(idx, lock_type, ok, err) ==
    IF ok THEN [idx EXCEPT !.lock_type = lock_type]
    ELSE [idx EXCEPT !.last_error = err]

LockResultIgnoresSetLock(ret, lock_ok) == ret

\* ret of index_storage_lock() after index->set_lock().
LockResult(ret, lock_ok) == IF ~lock_ok THEN FALSE ELSE ret

\* The call mail_storage_set_index_error() makes on the mail storage for an
\* error kind, if any.
StorageErrorFor(kind) ==
    CASE kind \in {"NONE", "INTERNAL"} ->
            <<Ext("mail_storage_set_internal_error", NULL, TRUE)>>
      [] kind = "INCONSISTENT"         -> <<>>
      [] kind = "DISKSPACE"            ->
            <<Ext("mail_storage_set_error", "Out of disk space", TRUE)>>
      [] kind = "INDEX_LOCK_TIMEOUT"   ->
            <<Ext("mail_storage_set_error",
                  "Timeout while waiting for lock to index of mailbox", TRUE)>>
      [] kind = "MAILBOX_LOCK_TIMEOUT" ->
            <<Ext("mail_storage_set_error",
                  "Timeout while waiting for lock to mailbox", TRUE)>>

\* The calls of mail_storage_set_index_error() when the index handle's last
\* error is kind: it reads the error, reports it and resets it.
Translation(kind) ==
    <<Ext("get_last_error", kind, TRUE)>> \o StorageErrorFor(kind) \o
    <<Ext("index_reset_error", NULL, TRUE)>>

\* The session mail_storage_set_index_error() leaves: only
\* MAIL_INDEX_ERROR_INCONSISTENT marks it.
SetIndexErrorSession(box, idx) ==
    [box EXCEPT !.inconsistent =
        IF idx.last_error = "INCONSISTENT" THEN TRUE ELSE @]

index_reset_errorSkippedWhenInconsistent(idx) ==
    IF idx.last_error = "INCONSISTENT" THEN idx
    ELSE [idx EXCEPT !.last_error = "NONE"]

\* index_reset_error(index), the last statement of
\* mail_storage_set_index_error().
index_reset_error(idx) == [idx EXCEPT !.last_error = "NONE"]

\* mail_storage_set_index_error(ibox) for session s, given the session and the
\* handle as the caller left them.  It returns FALSE.
mail_storage_set_index_error(s, box, idx) ==
    /\ ibox' = [ibox EXCEPT ![s] = SetIndexErrorSession(box, idx)]
    /\ mail_index' = index_reset_error(idx)

\* index_storage_lock(ibox, lock_type) for session s.  commit_ok, end_ok and
\* lock_ok are the results of the calls it makes; err is the error a failing
\* call leaves on the index handle.
index_storage_lock(s, lock_type, commit_ok, end_ok, lock_ok, err) ==
    LET box  == ibox[s]
        tr   == IF lock_type = "UNLOCK"
                THEN UnlockTransaction(box.trans_ctx, commit_ok, end_ok)
                ELSE [calls |-> <<>>, ret |-> TRUE]
        box1 == IF lock_type = "UNLOCK"
                THEN [box EXCEPT !.trans_ctx = FALSE] ELSE box
        idx1 == IF tr.ret THEN mail_index ELSE [mail_index EXCEPT !.last_error = err]
    IN /\ IF EarlyReturn(box1, lock_type)
          THEN /\ ibox' = [ibox EXCEPT ![s] = box1]
               /\ mail_index' = idx1
               /\ lcall' = SessionCall("lock", s, lock_type, TRUE, tr.calls, box)
          ELSE LET box2  == InitLockNotify(box1)
                   idx2  == [IndexSetLock(idx1, lock_type, lock_ok, err)
                               EXCEPT !.notify_context = NULL]
                   ret   == LockResult(tr.ret, lock_ok)
                   calls == tr.calls \o
                            <<Ext("set_lock_notify_callback", s, TRUE),
                              Ext("set_lock", lock_type, lock_ok),
                              Ext("set_lock_notify_callback", NULL, TRUE)>>
               IN IF ret
                  THEN /\ ibox' = [ibox EXCEPT ![s] = box2]
                       /\ mail_index' = idx2
                       /\ lcall' = SessionCall("lock", s, lock_type, TRUE,
                                               calls, box)
                  ELSE /\ mail_storage_set_index_error(s, box2, idx2)
                       /\ lcall' = SessionCall("lock", s, lock_type, FALSE,
                                      calls \o Translation(idx2.last_error),
                                      box)
       /\ UNCHANGED clock
       /\ UNCHANGED <<regVars, fetchVars>>

\* The mailbox-level lock call (box->lock) records the lock state t the
\* session holds in ibox->lock_type.
SetSessionLock(s, t) ==
    /\ mail_index.notify_context = NULL
    /\ ibox[s].lock_type # t
    /\ ibox' = [ibox EXCEPT ![s].lock_type = t]
    /\ lcall' = SessionCall("box_lock", s, t, TRUE, <<>>, ibox[s])
    /\ UNCHANGED <<mail_index, clock>>
    /\ UNCHANGED <<regVars, fetchVars>>

\* Data is staged for caching while the index is locked: the session opens a
\* cache-write transaction.
CacheTransactionBegin(s) ==
    /\ mail_index.notify_context = NULL
    /\ mail_index.lock_type # "UNLOCK"
    /\ ~ibox[s].trans_ctx
    /\ ibox' = [ibox EXCEPT ![s].trans_ctx = TRUE]
    /\ lcall' = SessionCall("cache_begin", s, NULL, TRUE, <<>>, ibox[s])
    /\ UNCHANGED <<mail_index, clock>>
    /\ UNCHANGED <<regVars, fetchVars>>

\* The index handle the sessions of the lock coordinator are opened on.
SharedIndex == "a"

\* struct index_mailbox as index_storage_mailbox_init() leaves it: i_new()
\* zeroes it, so its lock state is MAILBOX_LOCK_UNLOCK and last_notify_type
\* is the first enumerator.
NewSession ==
    [index |-> SharedIndex,
     lock_type |-> "UNLOCK", trans_ctx |-> FALSE, inconsistent |-> FALSE,
     readonly |-> FALSE, next_lock_notify |-> clock + LOCK_NOTIFY_INTERVAL,
     last_notify_type |-> "MAILBOX_ABORT"]

\* The sessions opened and the handle unlocked, with no error pending.
LockInit ==
    /\ clock = 0
    /\ ibox = [s \in Sessions |-> NewSession]
    /\ mail_index = [opened |-> TRUE,
                     lock_type |-> "UNLOCK", notify_context |-> NULL,
                     last_error |-> "NONE", mailbox_readonly |-> FALSE]
    /\ lcall = SessionCall("open", NULL, NULL, TRUE, <<>>, NewSession)

\* The results the calls of index_storage_lock(ibox, lock_type) can have for
\* session s: a call that is not made has no result to choose.
Outcomes(s, lock_type) ==
    LET trans == lock_type = "UNLOCK" /\ ibox[s].trans_ctx
        early == EarlyReturn(ibox[s], lock_type)
    IN {o \in [commit_ok : BOOLEAN, end_ok : BOOLEAN, lock_ok : BOOLEAN,
                err : ErrorKinds] :
          /\ ~trans => (o.commit_ok /\ o.end_ok)
          /\ early => o.lock_ok
          /\ (o.commit_ok /\ o.end_ok /\ o.lock_ok) => o.err = "NONE"}

LockNext ==
    \/ \E s \in Sessions, lock_type \in LockTypes :
          \E o \in Outcomes(s, lock_type) :
             index_storage_lock(s, lock_type, o.commit_ok, o.end_ok, o.lock_ok,
                                o.err)
    \/ \E s \in Sessions, t \in LockTypes : SetSessionLock(s, t)
    \/ \E s \in Sessions : CacheTransactionBegin(s)

InitLock == RegInit /\ LockInit /\ FetchInit

SpecLock == InitLock /\ [][LockNext]_vars

\* ------------------------------------------------------- stall notification

\* lock_notify() re-arms the alarm to land on multiples of AlarmRound seconds.
AlarmRound == 15

\* lock_notify() shows no repeated notification with less than NotifyMinSecs
\* seconds left.
NotifyMinSecs == 15

\* time(NULL) never advances past MaxClock.
MaxClock == 60

\* The clock advances by half the notification interval at a time.
ClockStep == LOCK_NOTIFY_INTERVAL \div 2

\* The secs_left values the lock provider reports.
SecsLeft == {10, 15, 40}

\* The record of a lock_notify() call: its arguments, whether it showed the
\* notification, the calls it made, and the time and the session's throttling
\* state as it found them.
NotifyCall(s, notify_type, secs_left, shown, calls) ==
    [op |-> "notify", sess |-> s, notify_type |-> notify_type,
     secs_left |-> secs_left, ret |-> shown, calls |-> calls, now |-> clock,
     last_notify_type |-> ibox[s].last_notify_type,
     next_lock_notify |-> ibox[s].next_lock_notify]

SuppressedUnlessUrgent(box, notify_type, secs_left, now) ==
    /\ box.last_notify_type = NotifyNone \/ box.last_notify_type = notify_type
    /\ ~(box.last_notify_type = NotifyNone /\ notify_type = "MAILBOX_OVERRIDE")
    /\ now < box.next_lock_notify /\ ~(secs_left < NotifyMinSecs)

\* Whether lock_notify() returns without showing the notification.
Suppressed(box, notify_type, secs_left, now) ==
    /\ box.last_notify_type = NotifyNone \/ box.last_notify_type = notify_type
    /\ ~(box.last_notify_type = NotifyNone /\ notify_type = "MAILBOX_OVERRIDE")
    /\ now < box.next_lock_notify \/ secs_left < NotifyMinSecs

\* The alarm() call of lock_notify(), if any.
Alarm(secs_left) ==
    IF secs_left % AlarmRound # 0
    THEN <<Ext("alarm", secs_left % AlarmRound, TRUE)>>
    ELSE <<>>

\* The storage callback lock_notify() routes a notification to.
NotifyVia(notify_type) ==
    CASE notify_type = "MAILBOX_ABORT"    -> "notify_no"
      [] notify_type = "MAILBOX_OVERRIDE" -> "notify_ok"
      [] notify_type = "INDEX_ABORT"      -> "notify_no"

\* index_storage_lock() installs the callback and enters index->set_lock(),
\* which blocks: index_storage_init_lock_notify(ibox) for session s.
index_storage_init_lock_notify(s) ==
    /\ mail_index.notify_context = NULL
    /\ ibox' = [ibox EXCEPT ![s] = InitLockNotify(ibox[s])]
    /\ mail_index' = [mail_index EXCEPT !.notify_context = s]
    /\ lcall' = SessionCall("init_lock_notify", s, NULL, TRUE, <<>>, ibox[s])
    /\ UNCHANGED clock
    /\ UNCHANGED <<regVars, fetchVars>>

\* lock_notify(notify_type, secs_left, context), called by the lock provider
\* while index->set_lock() waits.
lock_notify(notify_type, secs_left) ==
    /\ mail_index.notify_context # NULL
    /\ LET s   == mail_index.notify_context
           box == ibox[s]
       IN IF Suppressed(box, notify_type, secs_left, clock)
          THEN /\ lcall' = NotifyCall(s, notify_type, secs_left, FALSE,
                                      Alarm(secs_left))
               /\ UNCHANGED ibox
          ELSE /\ ibox' = [ibox EXCEPT ![s] =
                             [box EXCEPT
                                !.next_lock_notify = clock + LOCK_NOTIFY_INTERVAL,
                                !.last_notify_type = notify_type]]
               /\ lcall' = NotifyCall(s, notify_type, secs_left, TRUE,
                              Alarm(secs_left) \o
                              <<Ext(NotifyVia(notify_type), secs_left, TRUE)>>)
    /\ UNCHANGED <<mail_index, clock>>
    /\ UNCHANGED <<regVars, fetchVars>>

\* index->set_lock() has returned: index_storage_lock() removes the callback.
RemoveLockNotify ==
    /\ mail_index.notify_context # NULL
    /\ mail_index' = [mail_index EXCEPT !.notify_context = NULL]
    /\ lcall' = SessionCall("remove_lock_notify", mail_index.notify_context,
                            NULL, TRUE, <<>>, ibox[mail_index.notify_context])
    /\ UNCHANGED <<ibox, clock>>
    /\ UNCHANGED <<regVars, fetchVars>>

\* Time passes.
ClockTick ==
    /\ clock + ClockStep <= MaxClock
    /\ clock' = clock + ClockStep
    /\ UNCHANGED <<ibox, mail_index, lcall>>
    /\ UNCHANGED <<regVars, fetchVars>>

NotifyNext ==
    \/ \E s \in Sessions : index_storage_init_lock_notify(s)
    \/ \E notify_type \in NotifyTypes, secs_left \in SecsLeft :
          lock_notify(notify_type, secs_left)
    \/ RemoveLockNotify
    \/ ClockTick

SpecNotify == InitLock /\ [][NotifyNext]_vars

\* -------------------------------------------------------- session lifecycle

\* A session slot with no mailbox open in it.
NoSession == [NewSession EXCEPT !.index = NULL]

\* The session slot s holds an open mailbox.
Live(s) == ibox[s].index # NULL

\* The path the open code resolves: the sessions are opened on one mailbox.
OpenPaths == {SharedIndex}

\* The errors a failing call leaves on the index handle while sessions are
\* opened and closed.
OpenErrors == {"NONE", "INCONSISTENT", "DISKSPACE"}

\* The enum mailbox_open_flags sets a caller opens a mailbox with.
OpenFlagSets == {{}, {"READONLY", "FAST"}}

\* index_flags, as index_storage_mailbox_init() derives them from flags.
IndexFlags(flags) ==
    {"CREATE"}
    \cup (IF "FAST" \in flags THEN {"FAST"} ELSE {})
    \cup (IF "READONLY" \in flags THEN {"UPDATE_RECENT"} ELSE {})
    \cup (IF "MMAP_INVALIDATE" \in flags THEN {"MMAP_INVALIDATE"} ELSE {})

\* struct index_mailbox as index_storage_mailbox_init() fills it for index.
OpenedSession(index, flags) ==
    [NewSession EXCEPT !.index = index, !.readonly = "READONLY" \in flags]

\* index->open(index, index_flags) and what follows it while the index is
\* being opened: the state of the handle, the calls made and whether the
\* loop body goes on.
OpenIndex(idx, flags, o) ==
    IF idx.opened
    THEN [idx |-> idx, calls |-> <<>>, ok |-> TRUE]
    ELSE IF ~o.open_ok
    THEN [idx   |-> [idx EXCEPT !.last_error = o.err],
          calls |-> <<Ext("open", IndexFlags(flags), FALSE)>>,
          ok    |-> FALSE]
    ELSE [idx   |-> [idx EXCEPT !.opened = TRUE],
          calls |-> <<Ext("open", IndexFlags(flags), TRUE),
                      Ext("mail_cache_set_defaults", NULL, TRUE)>> \o
                    (IF o.in_memory
                     THEN <<Ext("notify_no", "Couldn't use index files", TRUE)>>
                     ELSE <<>>),
          ok    |-> TRUE]

\* The do { } while (0) body of index_storage_mailbox_init(): the state of the
\* handle and the calls made when it returns the session (ok) or breaks.
OpenRun(s, idx, flags, o) ==
    LET a == OpenIndex([idx EXCEPT !.notify_context = s], flags, o)
        b == IndexSetLock(a.idx, "SHARED", o.shared_ok, o.err)
        c == IndexSetLock(b, "UNLOCK", o.unlock_ok, o.err)
        c0 == <<Ext("set_lock_notify_callback", s, TRUE)>> \o a.calls
    IN IF ~a.ok THEN [idx |-> a.idx, calls |-> c0, ok |-> FALSE]
       ELSE IF ~o.shared_ok
       THEN [idx |-> b, calls |-> c0 \o <<Ext("set_lock", "SHARED", FALSE)>>,
             ok |-> FALSE]
       ELSE IF ~o.unlock_ok
       THEN [idx |-> c,
             calls |-> c0 \o <<Ext("set_lock", "SHARED", TRUE),
                                Ext("set_lock", "UNLOCK", FALSE)>>,
             ok |-> FALSE]
       ELSE [idx |-> [c EXCEPT !.notify_context = NULL],
             calls |-> c0 \o <<Ext("set_lock", "SHARED", TRUE),
                                Ext("set_lock", "UNLOCK", TRUE),
                                Ext("set_lock_notify_callback", NULL, TRUE)>>,
             ok |-> TRUE]

FreeIndexSkipsUnlock(idx, free_ok, err) == idx

\* The handle as index_storage_mailbox_free() leaves it: "make sure we're
\* unlocked", with the result of set_lock() ignored.
FreeIndex(idx, free_ok, err) == IndexSetLock(idx, "UNLOCK", free_ok, err)

\* The calls of index_storage_mailbox_free() for a session opened on index.
FreeCalls(index, free_ok) ==
    <<Ext("set_lock", "UNLOCK", free_ok),
      Ext("index_mailbox_check_remove_all", NULL, TRUE),
      Ext("index_storage_unref", index, TRUE)>>

\* index_storage_mailbox_init(storage, box, index, name, flags) into the free
\* session slot s, by a caller that holds a reference to index; o gives the
\* results of the calls it makes.  On success the session owns the caller's
\* reference; on failure index_storage_mailbox_free() releases it.
index_storage_mailbox_init(s, index, flags, o) ==
    /\ last.op # "panic"
    /\ index_storage_refcount > 0
    /\ ~Live(s)
    /\ held[index] > 0
    /\ held' = [held EXCEPT ![index] = @ - 1]
    /\ LET box == OpenedSession(index, flags)
           r   == OpenRun(s, mail_index, flags, o)
       IN IF r.ok
          THEN /\ ibox' = [ibox EXCEPT ![s] = box]
               /\ mail_index' = r.idx
               /\ lcall' = SessionCall("mailbox_init", s, index, TRUE, r.calls,
                                       ibox[s])
               /\ UNCHANGED <<indexes, to_index, last>>
          ELSE /\ ibox' = [ibox EXCEPT ![s] = NoSession]
               /\ mail_index' = FreeIndex(index_reset_error(r.idx), o.free_ok,
                                          o.err)
               /\ lcall' = SessionCall("mailbox_init", s, index, FALSE,
                              r.calls \o Translation(r.idx.last_error) \o
                              FreeCalls(index, o.free_ok),
                              ibox[s])
               /\ Unref(index)
    /\ UNCHANGED <<index_storage_refcount, ioloop_time, clock>>
    /\ UNCHANGED fetchVars

\* index_storage_mailbox_free(box) for the open session s.
index_storage_mailbox_free(s, free_ok, err) ==
    /\ last.op # "panic"
    /\ index_storage_refcount > 0
    /\ Live(s)
    /\ ibox' = [ibox EXCEPT ![s] = NoSession]
    /\ mail_index' = FreeIndex(mail_index, free_ok, err)
    /\ lcall' = SessionCall("mailbox_free", s, ibox[s].index, TRUE,
                            FreeCalls(ibox[s].index, free_ok), ibox[s])
    /\ Unref(ibox[s].index)
    /\ UNCHANGED <<index_storage_refcount, ioloop_time, held, clock>>
    /\ UNCHANGED fetchVars

\* index_mailbox_fix_custom_flags(ibox, ...) for the open session s: ret is
\* what mail_custom_flags_fix_list() returns and err the error it leaves on
\* the index handle when it fails.
index_mailbox_fix_custom_flags(s, ret, err) ==
    /\ Live(s)
    /\ IF ret = 1
       THEN /\ lcall' = SessionCall("fix_custom_flags", s, ret, TRUE, <<>>,
                                    ibox[s])
            /\ UNCHANGED <<ibox, mail_index>>
       ELSE IF ret = 0
       THEN /\ lcall' = SessionCall("fix_custom_flags", s, ret, FALSE,
                            <<Ext("mail_storage_set_error",
                                  "Maximum number of different custom flags exceeded",
                                  TRUE)>>,
                            ibox[s])
            /\ UNCHANGED <<ibox, mail_index>>
       ELSE /\ mail_storage_set_index_error(s, ibox[s],
                                            [mail_index EXCEPT !.last_error = err])
            /\ lcall' = SessionCall("fix_custom_flags", s, ret, FALSE,
                                    Translation(err), ibox[s])
    /\ UNCHANGED clock
    /\ UNCHANGED <<regVars, fetchVars>>

\* The results the calls of index_storage_mailbox_init() can have: a call
\* that is not made has no result to choose, and err is the error a failing
\* call leaves.
OpenOutcomes ==
    {o \in [open_ok : BOOLEAN, in_memory : BOOLEAN, shared_ok : BOOLEAN,
            unlock_ok : BOOLEAN, free_ok : BOOLEAN, err : OpenErrors] :
        /\ (mail_index.opened \/ ~o.open_ok) => ~o.in_memory
        /\ mail_index.opened => o.open_ok
        /\ ~o.open_ok => o.shared_ok
        /\ ~o.shared_ok => o.unlock_ok
        /\ (o.open_ok /\ o.shared_ok /\ o.unlock_ok) =>
               (o.free_ok /\ o.err = "NONE")}

\* No mailbox is open, and the index handle the open code allocates has not
\* been opened.
OpenInit ==
    /\ clock = 0
    /\ ibox = [s \in Sessions |-> NoSession]
    /\ mail_index = [opened |-> FALSE,
                     lock_type |-> "UNLOCK", notify_context |-> NULL,
                     last_error |-> "NONE", mailbox_readonly |-> FALSE]
    /\ lcall = SessionCall("start", NULL, NULL, TRUE, <<>>, NoSession)

InitOpen == RegInit /\ OpenInit /\ FetchInit

OpenNext ==
    \/ index_storage_init
    \/ \E path \in OpenPaths : index_storage_lookup_ref(path)
    \/ \E path \in OpenPaths : index_storage_add(path)
    \/ \E index \in Handles : index_storage_unref(index)
    \/ \E s \in Sessions, index \in Handles, flags \in OpenFlagSets :
          \E o \in OpenOutcomes : index_storage_mailbox_init(s, index, flags, o)
    \/ \E s \in Sessions, free_ok \in BOOLEAN, err \in OpenErrors :
          /\ free_ok => err = "NONE"
          /\ index_storage_mailbox_free(s, free_ok, err)
    \/ \E s \in Sessions, lock_type \in LockTypes :
          \E o \in Outcomes(s, lock_type) :
             /\ Live(s)
             /\ o.err \in OpenErrors
             /\ index_storage_lock(s, lock_type, o.commit_ok, o.end_ok,
                                   o.lock_ok, o.err)
    \/ \E s \in Sessions, ret \in {1, 0, -1}, err \in OpenErrors :
          /\ ret >= 0 => err = "NONE"
          /\ index_mailbox_fix_custom_flags(s, ret, err)

SpecOpen == InitOpen /\ [][OpenNext]_vars

\* The sessions and the registry together: attach, open, close and release,
\* with the sweeps that destroy entries (the timer, the scan of a lookup and
\* the forced sweep of the last index_storage_deinit()).
RefsNext ==
    \/ index_storage_init
    \/ index_storage_deinit
    \/ \E path \in OpenPaths : index_storage_lookup_ref(path)
    \/ \E path \in OpenPaths : index_storage_add(path)
    \/ \E index \in Handles : index_storage_unref(index)
    \/ \E s \in Sessions, index \in Handles, flags \in OpenFlagSets :
          \E o \in OpenOutcomes : index_storage_mailbox_init(s, index, flags, o)
    \/ \E s \in Sessions, free_ok \in BOOLEAN, err \in OpenErrors :
          /\ free_ok => err = "NONE"
          /\ index_storage_mailbox_free(s, free_ok, err)
    \/ index_removal_timeout
    \/ Tick

SpecRefs == InitOpen /\ [][RefsNext]_vars

\* ------------------------------------------------------------- FETCH engine

\* A mailbox holds at most MaxMsgs messages.
MaxMsgs == 3

\* One requested body section (struct imap_fetch_body_data): fields are the
\* header names of a HEADER.FIELDS section.
Body(section, fields, peek) ==
    [section |-> section, fields |-> fields, peek |-> peek]

\* The requests a client makes: fetch_data, imap_data and bodies.
Requests ==
    {[fetch_data |-> {"FLAGS", "SIZE"}, imap_data |-> {"UID"}, bodies |-> <<>>],
     [fetch_data |-> {}, imap_data |-> {"RFC822"}, bodies |-> <<>>],
     [fetch_data |-> {"FLAGS"}, imap_data |-> {"UID"},
      bodies |-> <<Body("1", <<>>, FALSE)>>],
     [fetch_data |-> {"IMAP_ENVELOPE"}, imap_data |-> {"RFC822_HEADER"},
      bodies |-> <<Body("HEADER.FIELDS ", <<"From", "Subject">>, TRUE),
                   Body("TEXT", <<>>, FALSE)>>],
     [fetch_data |-> {}, imap_data |-> {},
      bodies |-> <<Body("HEADER.FIELDS ", <<"To">>, TRUE)>>],
     [fetch_data |-> {"RECEIVED_DATE", "IMAP_BODY", "IMAP_BODYSTRUCTURE"},
      imap_data |-> {"RFC822_TEXT"}, bodies |-> <<>>]}

\* The mailboxes: the messages the iterator yields for the message set, in
\* ascending sequence order, each with or without \Seen.  seen0 keeps the flag
\* the message had when the FETCH began.
Mailbox(n, seen) ==
    [i \in 1..n |-> [seq |-> i, seen |-> i \in seen, seen0 |-> i \in seen]]

Mailboxes3 == {Mailbox(n, seen) : n \in 0..MaxMsgs, seen \in SUBSET (1..MaxMsgs)}

UpdateSeenIgnoresReadonly(readonly, imap_data, bodies) ==
    \/ \E i \in 1..Len(bodies) : ~bodies[i].peek
    \/ imap_data \cap {"RFC822", "RFC822_TEXT"} # {}

\* ctx.update_seen, as imap_fetch() decides it.
UpdateSeen(readonly, imap_data, bodies) ==
    /\ ~readonly
    /\ \/ \E i \in 1..Len(bodies) : ~bodies[i].peek
       \/ imap_data \cap {"RFC822", "RFC822_TEXT"} # {}

\* ctx.body_fetch_from_cache: every section is a HEADER.FIELDS one.
BodyFetchFromCache(bodies) ==
    \A i \in 1..Len(bodies) : bodies[i].section = "HEADER.FIELDS "

RECURSIVE Concat(_)
Concat(seqs) == IF seqs = <<>> THEN <<>> ELSE Head(seqs) \o Concat(Tail(seqs))

\* wanted_headers, as imap_fetch() passes it to fetch_init().
WantedHeaders(bodies) ==
    IF BodyFetchFromCache(bodies)
    THEN Concat([i \in 1..Len(bodies) |-> bodies[i].fields])
    ELSE NULL

\* One step of fetch_mail(): the call it makes on the mail or the output (fn
\* is NULL when it makes none), the part of fetch_mail() it belongs to, and the
\* token it appends to the line.
Step(phase, fn, arg, tok) == [phase |-> phase, fn |-> fn, arg |-> arg, tok |-> tok]

Tok(name, seen) == <<[tok |-> name, seen |-> seen]>>

PreStepsAlwaysUpdate(c, mail) ==
    IF ~c.update_seen THEN <<>>
    ELSE <<Step("pre", "get_flags", mail.seq, <<>>),
           Step("pre", "update_flags", mail.seq, <<>>)>>

\* Lines 198-213: the flags are read and \Seen is added when ctx.update_seen.
PreSteps(c, mail) ==
    IF ~c.update_seen THEN <<>>
    ELSE <<Step("pre", "get_flags", mail.seq, <<>>)>> \o
         (IF ~mail.seen
          THEN <<Step("pre", "update_flags", mail.seq, <<>>)>>
          ELSE <<>>)

\* mail->update_flags(mail, &ctx->seen_flag, MODIFY_ADD) when it succeeds: the
\* message has \Seen from then on.
MailUpdateFlags(mail) == [mail EXCEPT !.seen = TRUE]

\* seen_updated of fetch_mail().
SeenUpdated(c, mail) == c.update_seen /\ ~mail.seen

\* Lines 225-244: the tokens written into the temporary string.  fetch_flags()
\* reads the flags itself when fetch_mail() passes it NULL, and then sees the
\* \Seen that update_flags() added.
TokenSteps(c, mail) ==
    (IF "UID" \in c.imap_data
     THEN <<Step("token", NULL, mail.seq, Tok("UID", FALSE))>> ELSE <<>>) \o
    (IF "FLAGS" \in c.fetch_data \/ SeenUpdated(c, mail)
     THEN IF ~c.update_seen \/ SeenUpdated(c, mail)
          THEN <<Step("token", "get_flags", mail.seq,
                      Tok("FLAGS", IF SeenUpdated(c, mail)
                                   THEN MailUpdateFlags(mail).seen
                                   ELSE mail.seen))>>
          ELSE <<Step("token", NULL, mail.seq, Tok("FLAGS", mail.seen))>>
     ELSE <<>>) \o
    (IF "RECEIVED_DATE" \in c.fetch_data
     THEN <<Step("token", "get_received_date", mail.seq,
                 Tok("INTERNALDATE", FALSE))>> ELSE <<>>) \o
    (IF "SIZE" \in c.fetch_data
     THEN <<Step("token", "get_size", mail.seq, Tok("RFC822.SIZE", FALSE))>>
     ELSE <<>>) \o
    (IF "IMAP_BODY" \in c.fetch_data
     THEN <<Step("token", "get_special_body", mail.seq, Tok("BODY", FALSE))>>
     ELSE <<>>) \o
    (IF "IMAP_BODYSTRUCTURE" \in c.fetch_data
     THEN <<Step("token", "get_special_bodystructure", mail.seq,
                 Tok("BODYSTRUCTURE", FALSE))>> ELSE <<>>) \o
    (IF "IMAP_ENVELOPE" \in c.fetch_data
     THEN <<Step("token", "get_special_envelope", mail.seq,
                 Tok("ENVELOPE", FALSE))>> ELSE <<>>)

\* The tokens of a list of steps.
Tokens(steps) == Concat([i \in 1..Len(steps) |-> steps[i].tok])

\* Lines 247-253: the line "* seq FETCH (" and its tokens is sent.
SendStep(c, mail) ==
    <<Step("send", "o_stream_send",
           [seq |-> mail.seq, part |-> "line",
            tokens |-> Tokens(TokenSteps(c, mail))], <<>>)>>

\* fetch_send_rfc822(), fetch_send_rfc822_header() and fetch_send_rfc822_text():
\* the stream is opened, the literal's header sent and the message sent.
LargeSteps(c, mail) ==
    Concat([i \in 1..3 |->
        LET attr == <<"RFC822", "RFC822_HEADER", "RFC822_TEXT">>[i]
        IN IF attr \in c.imap_data
           THEN <<Step("large", "get_stream", [seq |-> mail.seq, attr |-> attr],
                       <<>>),
                  Step("large", "o_stream_send_str",
                       [seq |-> mail.seq, attr |-> attr], <<>>),
                  Step("large", "message_send",
                       [seq |-> mail.seq, attr |-> attr], <<>>)>>
           ELSE <<>>])

\* Lines 268-271: one imap_fetch_body_section() call per requested section.
SectionSteps(c, mail) ==
    [i \in 1..Len(c.bodies) |->
        Step("section", "imap_fetch_body_section",
             [seq |-> mail.seq, body |-> i], <<>>)]

\* Lines 276-279: the line is closed.
CloseStep(mail) ==
    Step("close", "o_stream_send",
         [seq |-> mail.seq, part |-> "close", tokens |-> <<>>], <<>>)

\* The steps of fetch_mail() up to the end of its do { } while (0) body.
BodySteps(c, mail) ==
    PreSteps(c, mail) \o TokenSteps(c, mail) \o SendStep(c, mail) \o
    LargeSteps(c, mail) \o SectionSteps(c, mail)

\* The calls of the steps i..j, all of which succeed.
Calls(steps, i, j) ==
    Concat([k \in 1..(IF j >= i THEN j - i + 1 ELSE 0) |->
               IF steps[i + k - 1].fn = NULL THEN <<>>
               ELSE <<Ext(steps[i + k - 1].fn, steps[i + k - 1].arg, TRUE)>>])

\* Whether a failure in a step of the given part of fetch_mail() leaves
\* failed set: the break in the loop over the sections leaves only that loop.
FailureAborts(phase) == phase \notin {"section", "close"}

ClosedAfterAnyFailure(phase) == phase \in {"token", "large", "section"}

\* Whether the line is closed after a failure in a step of the given part:
\* data_written is set once the line has been sent.
ClosedAfterFailure(phase) == phase \in {"large", "section"}

\* fetch_mail(ctx, mail) when its step number fail fails (none when fail is 0,
\* the closing of the line when fail is one past the steps of the body): the
\* calls it makes, its result and the message as it leaves it.
FetchMail(c, mail, fail) ==
    LET steps == BodySteps(c, mail)
        n     == Len(steps)
        mail1 == IF SeenUpdated(c, mail) /\ (fail = 0 \/ fail > Len(PreSteps(c, mail)))
                 THEN MailUpdateFlags(mail) ELSE mail
    IN IF fail = 0 \/ fail = n + 1
       THEN [calls |-> Calls(steps, 1, n) \o
                       <<Ext(CloseStep(mail).fn, CloseStep(mail).arg, fail = 0)>>,
             ok    |-> fail = 0,
             mail  |-> mail1]
       ELSE LET st == steps[fail]
            IN [calls |-> Calls(steps, 1, fail - 1) \o
                          <<Ext(st.fn, st.arg, FALSE)>> \o
                          (IF ClosedAfterFailure(st.phase)
                           THEN <<Ext(CloseStep(mail).fn, CloseStep(mail).arg, TRUE)>>
                           ELSE <<>>),
                ok    |-> ~FailureAborts(st.phase),
                mail  |-> mail1]

\* The steps of fetch_mail() that can fail.
FailPoints(c, mail) ==
    {0, Len(BodySteps(c, mail)) + 1} \cup
    {i \in 1..Len(BodySteps(c, mail)) : BodySteps(c, mail)[i].fn # NULL}

FetchResultIsCount(failed, all_found, count) ==
    IF failed THEN -1 ELSE count

\* The value imap_fetch() returns: all_found is what fetch_deinit() stored.
FetchResult(failed, all_found, count) ==
    IF failed THEN -1 ELSE IF all_found THEN 1 ELSE 0

\* imap_fetch() up to its loop: the pre-pass, the lock and fetch_init().  A
\* lock that fails returns -1 at once; a fetch_init() that fails skips the
\* loop.
imap_fetch_begin(req, readonly, box, lock_ok, init_ok) ==
    /\ pc = "idle"
    /\ LET update_seen == UpdateSeen(readonly, req.imap_data, req.bodies)
           c == [readonly |-> readonly, fetch_data |-> req.fetch_data,
                 imap_data |-> req.imap_data, bodies |-> req.bodies,
                 update_seen |-> update_seen,
                 body_fetch_from_cache |-> BodyFetchFromCache(req.bodies),
                 failed |-> FALSE]
           lock == IF update_seen
                   THEN <<Ext("lock", "FLAGS|READ", lock_ok)>> ELSE <<>>
       IN /\ mails' = box
          /\ nxt' = 1
          /\ IF update_seen /\ ~lock_ok
             THEN /\ ctx' = c
                  /\ io' = lock
                  /\ pc' = "done"
                  /\ fret' = -1
             ELSE /\ ctx' = [c EXCEPT !.failed = ~init_ok]
                  /\ io' = lock \o
                           <<Ext("fetch_init", WantedHeaders(req.bodies), init_ok)>>
                  /\ pc' = "loop"
                  /\ fret' = 0
    /\ UNCHANGED <<regVars, lockVars>>

\* One turn of the loop of imap_fetch(): fetch_next() yields a message and
\* fetch_mail() handles it.
fetch_mail ==
    /\ pc = "loop"
    /\ ~ctx.failed
    /\ nxt <= Len(mails)
    /\ \E fail \in FailPoints(ctx, mails[nxt]) :
          LET r == FetchMail(ctx, mails[nxt], fail)
          IN /\ io' = io \o <<Ext("fetch_next", nxt, TRUE)>> \o r.calls
             /\ mails' = [mails EXCEPT ![nxt] = r.mail]
             /\ ctx' = [ctx EXCEPT !.failed = ~r.ok]
             /\ nxt' = IF r.ok THEN nxt + 1 ELSE nxt
    /\ UNCHANGED <<pc, fret>>
    /\ UNCHANGED <<regVars, lockVars>>

\* imap_fetch() after its loop: fetch_next() is called once more and yields no
\* message (0), unless a fetch_mail() that failed left the loop; then
\* fetch_deinit(), the unlock and the return.
imap_fetch_end(deinit_ok, all_found) ==
    /\ pc = "loop"
    /\ ctx.failed \/ nxt > Len(mails)
    /\ LET inited == \E i \in 1..Len(io) : io[i].fn = "fetch_init" /\ io[i].ok
           failed == ctx.failed \/ (inited /\ ~deinit_ok)
       IN /\ io' = io \o
                   (IF inited /\ ~ctx.failed
                    THEN <<Ext("fetch_next", 0, TRUE)>> ELSE <<>>) \o
                   (IF inited
                    THEN <<Ext("fetch_deinit", all_found, deinit_ok)>>
                    ELSE <<>>) \o
                   <<Ext("lock", "UNLOCK", TRUE)>>
          /\ ctx' = [ctx EXCEPT !.failed = failed]
          /\ fret' = FetchResult(failed, all_found, nxt - 1)
    /\ pc' = "done"
    /\ UNCHANGED <<mails, nxt>>
    /\ UNCHANGED <<regVars, lockVars>>

\* imap_fetch() has returned fret to its caller; the context, which lived on
\* its stack, is gone.
imap_fetch_return ==
    /\ pc = "done"
    /\ pc' = "idle"
    /\ ctx' = NoContext
    /\ mails' = <<>>
    /\ nxt' = 1
    /\ io' = <<>>
    /\ UNCHANGED fret
    /\ UNCHANGED <<regVars, lockVars>>

FetchNext ==
    \/ \E req \in Requests, readonly \in BOOLEAN, box \in Mailboxes3,
          lock_ok \in BOOLEAN, init_ok \in BOOLEAN :
          imap_fetch_begin(req, readonly, box, lock_ok, init_ok)
    \/ fetch_mail
    \/ \E deinit_ok \in BOOLEAN, all_found \in BOOLEAN :
          imap_fetch_end(deinit_ok, all_found)
    \/ imap_fetch_return

SpecFetch == InitLock /\ [][FetchNext]_vars

Init == RegInit /\ LockInit /\ FetchInit

Next ==
    \/ \E path \in Paths : index_storage_lookup_ref(path)
    \/ \E path \in Paths : index_storage_add(path)
    \/ \E index \in Handles : index_storage_unref(index)
    \/ index_removal_timeout
    \/ index_storage_init
    \/ index_storage_deinit
    \/ Tick

Spec == Init /\ [][Next]_vars

\* The directories the callers name under SpecSweep: two names of one
\* directory, a second directory and one that does not exist.
SweepPaths == {"a", "a_link", "b", "gone"}

SweepNext ==
    \/ \E path \in SweepPaths : index_storage_lookup_ref(path)
    \/ \E path \in SweepPaths : index_storage_add(path)
    \/ \E index \in Handles : index_storage_unref(index)
    \/ index_removal_timeout
    \/ index_storage_init
    \/ index_storage_deinit
    \/ Tick

\* The registry under an event loop that keeps running: the sweep timer, once
\* added with timeout_add(1000, ...), fires again and again, and ioloop_time
\* advances (up to MaxTime).
SpecSweep ==
    /\ Init /\ [][SweepNext]_vars
    /\ WF_vars(index_removal_timeout) /\ WF_vars(Tick)

\* ------------------------------------------------------------------- claims

\* The (device, inode) identity of a handle's directory.
Identity(h) == <<stat(h).st_dev, stat(h).st_ino>>

UnrefCount(list) == Cardinality(Unreferenced(list))

\* The registry entry of handle h (h is in the registry).
EntryOf(h) == indexes[FindEntry(h)]

InList(list, h) == \E i \in 1..Len(list) : list[i].index = h

RefcountIn(list, h) ==
    LET i == CHOOSE j \in 1..Len(list) : list[j].index = h IN list[i].refcount

\* A lookup that got past stat(path) and scanned the list was the last call.
AfterScan == last.op = "lookup_ref" /\ stat(last.arg).ok

\* C1: every registry entry's refcount is >= 0 and no two entries of the
\* registry have the same (device, inode) identity.
C1_RefcountsAndIdentities ==
    /\ \A i \in 1..Len(indexes) : indexes[i].refcount >= 0
    /\ \A i, j \in 1..Len(indexes) :
          i # j => Identity(indexes[i].index) # Identity(indexes[j].index)

\* A lookup through the symlink has found the released entry that was added
\* for "a" and has referenced it again, next to the entries of other
\* directories.
C1_Witness ==
    /\ last.op = "lookup_ref" /\ last.arg = "a_link" /\ last.ret = "a"
    /\ InRegistry("a") /\ EntryOf("a").refcount = 1
    /\ EntryOf("a").released >= 0
    /\ Len(indexes) > 1

\* C2: no step removes from the registry an entry whose refcount is positive,
\* and the handle a lookup returns is in the registry with a positive
\* refcount and is not among the handles the lookup freed.
C2_ReferencedNeverDestroyed ==
    [][ /\ \A i \in 1..Len(indexes) :
              indexes[i].refcount > 0 => InList(indexes', indexes[i].index)
        /\ (last'.op = "lookup_ref" /\ last'.ret # NULL) =>
              /\ InList(indexes', last'.ret)
              /\ RefcountIn(indexes', last'.ret) > 0
              /\ last'.ret \notin last'.freed ]_vars

\* A lookup has matched an entry that was unreferenced with its destroy
\* timestamp elapsed: the scan would have reaped it had it not matched.
C2_Witness ==
    /\ last.op = "lookup_ref" /\ last.ret # NULL
    /\ InRegistry(last.ret)
    /\ EntryOf(last.ret).refcount = 1
    /\ EntryOf(last.ret).released >= 0
    /\ EntryOf(last.ret).destroy_time <= ioloop_time

\* C3 as stated: after the timer sweep and after a lookup's scan the registry
\* holds at most INDEX_CACHE_MAX entries with refcount 0.
C3_CapAfterEverySweep ==
    (last.op = "timeout" \/ AfterScan) => UnrefCount(indexes) <= INDEX_CACHE_MAX

\* C3 as amended: after a lookup's scan the registry holds at most
\* INDEX_CACHE_MAX entries with refcount 0 (the timer sweep enforces no cap).
C3_CapAfterScan ==
    AfterScan => UnrefCount(indexes) <= INDEX_CACHE_MAX

\* A scan at time 0, when no destroy timestamp can have elapsed, has freed an
\* entry and left exactly INDEX_CACHE_MAX unreferenced ones.
C3_Witness ==
    /\ AfterScan /\ ioloop_time = 0
    /\ last.freed # {}
    /\ UnrefCount(indexes) = INDEX_CACHE_MAX

\* C4 as stated: the sweep timer exists iff the registry is non-empty.
C4_TimerIffNonEmpty == to_index <=> (indexes # <<>>)

\* C4 as amended: the timer exists whenever the registry holds an entry with
\* refcount 0; after a timer sweep it exists iff the registry is non-empty;
\* and no sweep, timed or forced, leaves the timer with an empty registry.
C4_TimerCoversUnreferenced ==
    /\ UnrefCount(indexes) > 0 => to_index
    /\ last.op = "timeout" => (to_index <=> (indexes # <<>>))
    /\ (last.op = "deinit" /\ index_storage_refcount = 0 /\ indexes = <<>>)
          => ~to_index

\* A timer sweep has freed the last entries and removed the timer.
C4_Witness ==
    /\ last.op = "timeout" /\ last.freed # {}
    /\ indexes = <<>> /\ ~to_index

\* C5: when the timer sweep or a lookup's scan removes an unreferenced entry,
\* at least INDEX_CACHE_TIMEOUT seconds have passed since the release that took
\* its refcount to 0, or more than INDEX_CACHE_MAX entries were unreferenced.
C5_GraceWindow ==
    [][ \A i \in 1..Len(indexes) :
          ( /\ indexes[i].refcount = 0
            /\ ~InList(indexes', indexes[i].index)
            /\ last'.op \in {"timeout", "lookup_ref"} )
          => \/ ioloop_time >= indexes[i].released + INDEX_CACHE_TIMEOUT
             \/ UnrefCount(indexes) > INDEX_CACHE_MAX ]_vars

\* A timer sweep has freed an elapsed entry and kept an unreferenced one that
\* was released later and whose window is still open.
C5_Witness ==
    /\ last.op = "timeout" /\ last.freed # {}
    /\ \E i \in 1..Len(indexes) :
          /\ indexes[i].refcount = 0
          /\ indexes[i].released > 0
          /\ indexes[i].destroy_time > ioloop_time

\* C6 as stated: a release never leaves more than INDEX_CACHE_MAX unreferenced
\* entries, the excess being destroyed as part of the release.
C6_ReleaseDestroysOverCap ==
    last.op = "unref" => UnrefCount(indexes) <= INDEX_CACHE_MAX

\* The entries a scan has to free to get back under the cap: the unreferenced
\* entries, less the one the lookup matched, over INDEX_CACHE_MAX.
ScanExcess(list, match) ==
    Cardinality({i \in Unreferenced(list) : list[i].index # match})
        - INDEX_CACHE_MAX

\* C6 as amended: a release frees nothing and leaves the list's handles as
\* they were, even over the cap; the next lookup's scan frees the excess over
\* INDEX_CACHE_MAX, whatever the destroy timestamps.
C6_ExcessFreedByNextScan ==
    [][ /\ last'.op = "unref" =>
              /\ last'.freed = {}
              /\ Len(indexes') = Len(indexes)
              /\ \A i \in 1..Len(indexes) :
                    indexes'[i].index = indexes[i].index
        /\ (last'.op = "lookup_ref" /\ stat(last'.arg).ok) =>
              Cardinality(last'.freed) >= ScanExcess(indexes, last'.ret) ]_vars

\* A release has left more than INDEX_CACHE_MAX unreferenced entries, none of
\* them elapsed.
C6_Witness ==
    /\ last.op = "unref"
    /\ UnrefCount(indexes) > INDEX_CACHE_MAX
    /\ \A i \in 1..Len(indexes) : indexes[i].destroy_time > ioloop_time

\* The last call was index_storage_lock(ibox, MAIL_LOCK_UNLOCK).
UnlockCalled == lcall.op = "lock" /\ lcall.req = "UNLOCK"

\* The calls of the last session call on the functions fns, in order.
CallsTo(fns) == SelectSeq(lcall.calls, LAMBDA c : c.fn \in fns)

\* The last call was an index_storage_lock() that went as far as
\* index->set_lock().
Acquired == lcall.op = "lock" /\ CallsTo({"set_lock"}) # <<>>

\* C7: an unlock of a session with an open cache-write transaction calls
\* commit and then end, each exactly once and commit first, whatever commit
\* returned and whatever the session's lock state, and leaves the session
\* without a transaction.
C7_UnlockCommitsThenEnds ==
    (UnlockCalled /\ lcall.trans_ctx) =>
        /\ Len(lcall.calls) >= 2
        /\ lcall.calls[1].fn = "mail_cache_transaction_commit"
        /\ lcall.calls[2].fn = "mail_cache_transaction_end"
        /\ Len(CallsTo({"mail_cache_transaction_commit",
                        "mail_cache_transaction_end"})) = 2
        /\ ~ibox[lcall.sess].trans_ctx

\* An unlock of a session that holds a lock has seen its commit fail and has
\* still called end.
C7_Witness ==
    /\ UnlockCalled /\ lcall.trans_ctx
    /\ lcall.lock_type # "UNLOCK"
    /\ ~lcall.calls[1].ok
    /\ lcall.calls[2].fn = "mail_cache_transaction_end"

\* C8 as stated: an unlock of a session whose lock state is Unlocked and that
\* has no transaction returns success, calls nothing and changes nothing.
C8_UnlockWhenUnlockedIsNoOp ==
    [][ ( /\ lcall'.op = "lock" /\ lcall'.req = "UNLOCK"
          /\ lcall'.lock_type = "UNLOCK" /\ ~lcall'.trans_ctx
          /\ lcall' # lcall )
        => /\ lcall'.ret
           /\ lcall'.calls = <<>>
           /\ ibox' = ibox
           /\ mail_index' = mail_index ]_vars

\* C8 as amended: an unlock of a session with no transaction returns success,
\* calls nothing and changes nothing exactly when the session's lock state is
\* not Unlocked; when it is Unlocked the call installs the callback, calls the
\* handle's set_lock(Unlocked), removes the callback and returns that call's
\* result.
C8_UnlockWhenLockedIsNoOp ==
    (UnlockCalled /\ ~lcall.trans_ctx) =>
        IF lcall.lock_type # "UNLOCK"
        THEN /\ lcall.ret
             /\ lcall.calls = <<>>
             /\ ibox[lcall.sess].lock_type = lcall.lock_type
        ELSE /\ Len(lcall.calls) >= 3
             /\ lcall.calls[1] = Ext("set_lock_notify_callback", lcall.sess, TRUE)
             /\ lcall.calls[2] = Ext("set_lock", "UNLOCK", lcall.ret)
             /\ lcall.calls[3] = Ext("set_lock_notify_callback", NULL, TRUE)

\* An unlock of a session whose lock state is Shared has returned success and
\* left the handle locked.
C8_Witness ==
    /\ UnlockCalled /\ ~lcall.trans_ctx
    /\ lcall.lock_type = "SHARED"
    /\ lcall.ret /\ lcall.calls = <<>>
    /\ mail_index.lock_type = "SHARED"

\* C9 as stated: after an acquisition that returns success the session's lock
\* state is the requested one; after one that returns failure it is unchanged.
C9_LockStateFollowsRequest ==
    Acquired =>
        IF lcall.ret
        THEN ibox[lcall.sess].lock_type = lcall.req
        ELSE ibox[lcall.sess].lock_type = lcall.lock_type

\* C9 as amended: after an acquisition the session's lock state is unchanged,
\* whether it returns success or failure; when it returns success the handle's
\* set_lock was called once, with the requested state, and succeeded.
C9_LockStateUnchanged ==
    Acquired =>
        /\ ibox[lcall.sess].lock_type = lcall.lock_type
        /\ lcall.ret => CallsTo({"set_lock"}) = <<Ext("set_lock", lcall.req, TRUE)>>

\* A Shared lock has been acquired for a session whose lock state stays
\* Unlocked.
C9_Witness ==
    /\ Acquired /\ lcall.ret /\ lcall.req = "SHARED"
    /\ ibox[lcall.sess].lock_type = "UNLOCK"
    /\ mail_index.lock_type = "SHARED"

\* The last call was a lock_notify() of the kind last shown in this wait.
SameKindNotified ==
    lcall.op = "notify" /\ lcall.last_notify_type = lcall.notify_type

\* The last lock_notify() call arrived inside the throttle interval.
InsideInterval == lcall.now < lcall.next_lock_notify

\* The last lock_notify() call routed its notification to the storage's
\* callback for its kind.
Routed ==
    CallsTo({"notify_ok", "notify_no"}) =
        <<Ext(NotifyVia(lcall.notify_type), lcall.secs_left, TRUE)>>

\* C10 as stated: a notification of the kind last shown is shown when
\* secs_left is under 15, and is otherwise suppressed inside the interval.
C10_UrgentAlwaysShown ==
    SameKindNotified =>
        IF lcall.secs_left < NotifyMinSecs
        THEN lcall.ret /\ Routed
        ELSE InsideInterval => ~lcall.ret

\* C10 as amended: a notification of the kind last shown is suppressed inside
\* the interval and whenever secs_left is under 15; it is shown, and routed to
\* notify_ok or notify_no, only once the interval has passed with at least 15
\* seconds left.
C10_UrgentAlwaysSuppressed ==
    SameKindNotified =>
        IF InsideInterval \/ lcall.secs_left < NotifyMinSecs
        THEN ~lcall.ret /\ CallsTo({"notify_ok", "notify_no"}) = <<>>
        ELSE lcall.ret /\ Routed

\* A notification of the kind last shown has come after the interval with
\* under 15 seconds left, and has been suppressed.
C10_Witness ==
    /\ SameKindNotified
    /\ ~InsideInterval
    /\ lcall.secs_left < NotifyMinSecs
    /\ ~lcall.ret

\* The last session call translated an index-layer error.
Translated == CallsTo({"index_reset_error"}) # <<>>

\* The error kind the last session call translated.
TranslatedKind == CallsTo({"get_last_error"})[1].arg

\* What a translation leaves: the last call failed, it read the error,
\* reported it as its kind demands and reset it, and when it was the last thing
\* the call did the handle's last error is none.  A failed open goes on to
\* close the session, whose unlock may fail anew.
TranslationDone ==
    Translated =>
        /\ ~lcall.ret
        /\ CallsTo({"get_last_error", "mail_storage_set_internal_error",
                    "mail_storage_set_error", "index_reset_error"})
              = Translation(TranslatedKind)
        /\ lcall.op \in {"lock", "fix_custom_flags"} =>
              /\ mail_index.last_error = "NONE"
              /\ TranslatedKind = "INCONSISTENT" => ibox[lcall.sess].inconsistent
        /\ lcall.op = "mailbox_init" =>
              (lcall.calls[Len(lcall.calls) - 2].ok =>
                  mail_index.last_error = "NONE")

\* A step sets a session's inconsistency flag only by translating the
\* inconsistent kind for that session, and never clears it while the session
\* is open.
InconsistentSticky ==
    \A s \in Sessions :
        (ibox[s].index # NULL /\ ibox'[s].index # NULL) =>
            /\ ibox[s].inconsistent => ibox'[s].inconsistent
            /\ (~ibox[s].inconsistent /\ ibox'[s].inconsistent) =>
                  /\ lcall'.sess = s
                  /\ CallsTo({"get_last_error"})'
                        = <<Ext("get_last_error", "INCONSISTENT", TRUE)>>

\* C11: whenever a failed set_lock, open or custom-flag fix translates an
\* index-layer error, for every error kind the operation reports failure and
\* the handle's last error is reset to none by the translation; only the
\* inconsistent kind sets the session's inconsistency flag, and no later
\* operation on the open session clears it.
C11_TranslationResetsError ==
    []TranslationDone /\ [][InconsistentSticky]_vars

\* A set_lock has failed with the inconsistent kind: the session is marked and
\* the handle's error is reset.
C11_Witness ==
    /\ lcall.op = "lock" /\ Translated
    /\ TranslatedKind = "INCONSISTENT"
    /\ ibox[lcall.sess].inconsistent
    /\ mail_index.last_error = "NONE"

\* The step is an index_storage_mailbox_init() that fails: the caller's
\* reference is gone.
FailedOpenStep ==
    /\ lcall'.op = "mailbox_init" /\ ~lcall'.ret
    /\ held'[lcall'.req] = held[lcall'.req] - 1

\* A failed open returns no session and releases the caller's reference once.
FailedOpenReleases ==
    /\ ibox'[lcall'.sess].index = NULL
    /\ RefcountIn(indexes', lcall'.req) = RefcountIn(indexes, lcall'.req) - 1
    /\ Len(SelectSeq(lcall'.calls,
                     LAMBDA c : c.fn = "index_storage_unref")) = 1

C18_UnlockReportsTransactionFailure ==
    (UnlockCalled /\ lcall.trans_ctx) =>
        (lcall.ret => (lcall.calls[1].ok /\ lcall.calls[2].ok))

\* C19: when a session has just acquired a lock on the shared handle, opening
\* or closing another session leaves the handle's lock as it is.
C19_OtherSessionKeepsLock ==
    [][ ( /\ Acquired /\ lcall.ret /\ lcall.req # "UNLOCK"
          /\ lcall'.op \in {"mailbox_init", "mailbox_free"}
          /\ lcall'.sess # lcall.sess
          /\ lcall' # lcall )
        => mail_index'.lock_type = mail_index.lock_type ]_vars

\* C20: after set_lock or open returns the handle has no callback installed,
\* and the handle never keeps a callback whose context is a session that has
\* been freed.
C20_NoCallbackOutsideAcquisition ==
    /\ lcall.op \in {"lock", "mailbox_init"} =>
          mail_index.notify_context = NULL
    /\ mail_index.notify_context # NULL => Live(mail_index.notify_context)

\* The calls on the mail object that take the message as their argument.
MailFns ==
    {"get_flags", "update_flags", "get_received_date", "get_size",
     "get_special_body", "get_special_bodystructure", "get_special_envelope"}

\* The calls that write to the output for a message.
WriteFns ==
    {"o_stream_send", "o_stream_send_str", "message_send",
     "imap_fetch_body_section"}

\* The sequence number of the message a call of imap_fetch() is made for, 0
\* when it is made for none.
SeqOf(e) ==
    IF e.fn \in MailFns THEN e.arg
    ELSE IF e.fn \in WriteFns \cup {"get_stream"} THEN e.arg.seq
    ELSE 0

\* The positions in io of the calls made for message m, and of the writes.
CallsFor(m) == {i \in 1..Len(io) : SeqOf(io[i]) = m}

WritesFor(m) == {i \in CallsFor(m) : io[i].fn \in WriteFns}

UpdatesFor(m) == {i \in CallsFor(m) : io[i].fn = "update_flags"}

\* The call at position i of io sends the given part of a line.
IsPart(i, part) == io[i].fn = "o_stream_send" /\ io[i].arg.part = part

\* The lines sent and the lines closed, as the sequence numbers they carry.
Sent(part) ==
    LET lines == SelectSeq(io, LAMBDA e : e.fn = "o_stream_send" /\ e.ok
                                          /\ e.arg.part = part)
    IN [i \in 1..Len(lines) |-> lines[i].arg.seq]

\* The request has a body section that is not a peek.
NonPeek == \E i \in 1..Len(ctx.bodies) : ~ctx.bodies[i].peek

\* imap_fetch() took the flags+read lock.
LockTaken ==
    \E i \in 1..Len(io) :
        io[i].fn = "lock" /\ io[i].ok /\ io[i].arg = "FLAGS|READ"

\* C13: on a read-only mailbox a FETCH makes no flag-update call and does not
\* take the flags+read lock, whatever is requested.
C13_ReadonlyNeverUpdatesFlags ==
    ctx.readonly =>
        /\ \A i \in 1..Len(io) : io[i].fn # "update_flags"
        /\ ~LockTaken

\* A FETCH of a non-peek section has succeeded on a read-only mailbox whose
\* first message lacks \Seen, and has left it so.
C13_Witness ==
    /\ pc = "done" /\ ctx.readonly /\ NonPeek
    /\ fret = 1
    /\ Len(mails) >= 2 /\ ~mails[1].seen0 /\ ~mails[1].seen

\* C14: on a mailbox that is not read-only, with a section that is not a
\* peek, each message whose flags could be read gets one flag-update call if
\* it lacked \Seen and none if it had it, the call comes before anything is
\* written for the message, and a FLAGS token in its line shows \Seen.
C14_SeenUpdatedOncePerMessage ==
    (~ctx.readonly /\ NonPeek) =>
        \A m \in 1..Len(mails) :
            (\E i \in CallsFor(m) : io[i].fn = "get_flags" /\ io[i].ok) =>
                /\ Cardinality(UpdatesFor(m)) = IF mails[m].seen0 THEN 0 ELSE 1
                /\ \A u \in UpdatesFor(m), w \in WritesFor(m) : u < w
                /\ \A w \in WritesFor(m) :
                      io[w].fn = "o_stream_send" =>
                          \A t \in 1..Len(io[w].arg.tokens) :
                              io[w].arg.tokens[t].tok = "FLAGS" =>
                                  io[w].arg.tokens[t].seen

\* A FETCH of FLAGS and a non-peek section has succeeded over a message that
\* lacked \Seen and one that had it.
C14_Witness ==
    /\ pc = "done" /\ ~ctx.readonly /\ NonPeek /\ "FLAGS" \in ctx.fetch_data
    /\ fret = 1
    /\ Len(mails) >= 2 /\ ~mails[1].seen0 /\ mails[2].seen0
    /\ Cardinality(UpdatesFor(1)) = 1 /\ UpdatesFor(2) = {}

\* imap_fetch() has returned after a failure of the lock, of fetch_init(), of
\* a fetch_mail() or of fetch_deinit().
FetchFailed ==
    \/ ctx.failed
    \/ \E i \in 1..Len(io) : io[i].fn = "lock" /\ ~io[i].ok

\* One line per message was sent and closed, in ascending sequence order.
OneLinePerMessage ==
    /\ Sent("line") = [i \in 1..Len(mails) |-> i]
    /\ Sent("close") = [i \in 1..Len(mails) |-> i]

\* C15 as stated: a FETCH that succeeds over k messages writes k lines in
\* ascending order and returns k; it returns -1 only on failure.
C15_ReturnsMatchCount ==
    pc = "done" =>
        /\ fret = -1 => FetchFailed
        /\ ~FetchFailed => (OneLinePerMessage /\ fret = Len(mails))

\* C15 as amended: a FETCH that succeeds over k messages writes k lines in
\* ascending order and returns what fetch_deinit() stored in all_found, 1 or
\* 0; it returns -1 exactly on failure.
C15_ReturnsAllFound ==
    pc = "done" =>
        /\ fret = -1 <=> FetchFailed
        /\ ~FetchFailed =>
              /\ OneLinePerMessage
              /\ LET deinit == io[Len(io) - 1]
                 IN /\ deinit.fn = "fetch_deinit"
                    /\ fret = IF deinit.arg THEN 1 ELSE 0

\* A FETCH of UID, FLAGS and RFC822.SIZE over three messages has succeeded
\* and returned 1.
C15_Witness ==
    /\ pc = "done" /\ ~FetchFailed
    /\ ctx.fetch_data = {"FLAGS", "SIZE"} /\ ctx.imap_data = {"UID"}
    /\ Len(mails) = 3
    /\ Sent("line") = <<1, 2, 3>>
    /\ fret = 1

\* C16: when the section fetch fails for a section of a message, fetch_mail()
\* fails, no later message is handled and imap_fetch() returns -1.
C16_SectionFailureAborts ==
    \A i \in 1..Len(io) :
        (io[i].fn = "imap_fetch_body_section" /\ ~io[i].ok) =>
            /\ ctx.failed
            /\ \A j \in (i + 1)..Len(io) :
                  io[j].fn = "fetch_next" => io[j].arg = 0
            /\ pc = "done" => fret = -1

\* The token getters: the calls that read an attribute for the line.
TokenGetters == MailFns \ {"update_flags"}

\* The lines of the messages before m are complete and nothing is written for
\* the messages after it.
OnlyBefore(m) ==
    /\ Sent("line") = [i \in 1..(Len(Sent("line"))) |-> i]
    /\ \A k \in 1..(m - 1) :
          \E l, c \in WritesFor(k) :
              l < c /\ IsPart(l, "line") /\ IsPart(c, "close")
    /\ \A k \in (m + 1)..Len(mails) : CallsFor(k) = {}

\* imap_fetch() has returned: the unlock was its last call if it took the
\* lock, and it returned -1 if anything failed.
Unlocked ==
    (pc = "done" /\ LockTaken) =>
        /\ io[Len(io)].fn = "lock" /\ io[Len(io)].arg = "UNLOCK"
        /\ FetchFailed => fret = -1

\* C17 as stated: when a getter fails for message m, the lines before it are
\* complete, nothing is written for m or for a later message, the lock is
\* released and the FETCH returns -1.
C17_NothingWrittenOnGetterFailure ==
    /\ Unlocked
    /\ \A i \in 1..Len(io) :
          (io[i].fn \in TokenGetters \cup {"get_stream"} /\ ~io[i].ok) =>
              LET m == SeqOf(io[i])
              IN /\ OnlyBefore(m)
                 /\ WritesFor(m) = {}
                 /\ ctx.failed
                 /\ pc = "done" => fret = -1

\* C17 as amended: when a token getter fails for message m nothing is written
\* for m; when the stream getter of RFC822, RFC822.HEADER or RFC822.TEXT
\* fails, the line of m has been sent and is closed.  In both cases the lines
\* before m are complete, nothing is written for a later message, the lock is
\* released and the FETCH returns -1.
C17_LineClosedOnStreamFailure ==
    /\ Unlocked
    /\ \A i \in 1..Len(io) :
          (io[i].fn \in TokenGetters \cup {"get_stream"} /\ ~io[i].ok) =>
              LET m == SeqOf(io[i])
              IN /\ OnlyBefore(m)
                 /\ IF io[i].fn \in TokenGetters
                    THEN WritesFor(m) = {}
                    ELSE /\ \E l \in WritesFor(m) : l < i /\ IsPart(l, "line")
                         /\ IsPart(i + 1, "close")
                         /\ \A w \in WritesFor(m) : w <= i + 1
                 /\ ctx.failed
                 /\ pc = "done" => fret = -1

\* With the lock taken, the flags of the second message could not be read:
\* the first line is complete, nothing follows it and the FETCH has returned
\* -1 after the unlock.
C17_Witness ==
    /\ pc = "done" /\ LockTaken /\ fret = -1
    /\ \E i \in CallsFor(2) : io[i].fn \in TokenGetters /\ ~io[i].ok
    /\ Sent("close") = <<1>>
    /\ WritesFor(2) = {}
    /\ io[Len(io)].fn = "lock" /\ io[Len(io)].arg = "UNLOCK"

\* The registry has an entry for h with refcount 0.
UnreferencedEntry(h) ==
    \E i \in 1..Len(indexes) :
        indexes[i].index = h /\ indexes[i].refcount = 0

\* The registry has an entry for h with refcount 0 whose destroy timestamp
\* the clock can still reach.
Expiring(h) ==
    \E i \in 1..Len(indexes) :
        /\ indexes[i].index = h /\ indexes[i].refcount = 0
        /\ indexes[i].destroy_time <= MaxTime

\* While an entry is unreferenced the sweep timer exists.
TimerWhileUnreferenced == Unreferenced(indexes) # {} => to_index

\* The index_storage_deinit() of the last storage leaves no unreferenced
\* entry.
ForcedSweepLeavesNone ==
    (last.op = "deinit" /\ index_storage_refcount = 0) =>
        Unreferenced(indexes) = {}

\* C21: while the registry has an entry with refcount 0 the sweep timer is
\* scheduled; with the timer firing fairly and the clock advancing, an
\* unreferenced entry is in the end destroyed or referenced again; and the
\* index_storage_deinit() of the last storage leaves no unreferenced entry.
C21_UnreferencedEventuallyDestroyed ==
    /\ []TimerWhileUnreferenced
    /\ []ForcedSweepLeavesNone
    /\ \A h \in Handles : Expiring(h) ~> ~UnreferencedEntry(h)

\* The timer has fired at the end of the window of an entry released at time
\* 0 and destroyed it, and the entries that are left are referenced.
C21_Witness ==
    /\ last.op = "timeout" /\ last.freed # {}
    /\ ioloop_time >= INDEX_CACHE_TIMEOUT
    /\ \A h \in last.freed : ~InRegistry(h)
    /\ Unreferenced(indexes) = {}

\* The live sessions bound to the handle h.
SessionsOn(h) == {s \in Sessions : ibox[s].index = h}

\* C22: the refcount of each registry entry is the number of live sessions
\* bound to its handle plus the references the callers hold and have not yet
\* handed to an open; every live session's handle has its registry entry.
C22_RefcountCountsSessions ==
    /\ \A i \in 1..Len(indexes) :
          indexes[i].refcount =
              Cardinality(SessionsOn(indexes[i].index)) + held[indexes[i].index]
    /\ \A s \in Sessions : Live(s) => InRegistry(ibox[s].index)

\* Two sessions are open on the handle, whose entry was unreferenced in
\* between, and the timer has swept at the end of that entry's window without
\* destroying it.
C22_Witness ==
    /\ \A s \in Sessions : Live(s) /\ ibox[s].index = SharedIndex
    /\ last.op = "timeout" /\ last.freed = {}
    /\ \E i \in 1..Len(indexes) :
          /\ indexes[i].index = SharedIndex
          /\ indexes[i].refcount = Cardinality(Sessions)
          /\ indexes[i].released >= 0
          /\ indexes[i].destroy_time <= ioloop_time

====
